---- MODULE Spec2Model ----
(***************************************************************************)
(* Model of the greedy frequency allocator and the duplicate repair engine *)
(* of loteria_generator.py (_generate_balanced, _overlap_score,            *)
(* _repair_duplicates).                                                    *)
(*                                                                         *)
(* The module-level constants of the program (NUM_ITEMS, NUM_BOARDS,       *)
(* BOARD_SIZE and the two frequency classes) are gathered in the variable  *)
(* cfg, fixed by Init: the shipped configuration, the all-ones frequency   *)
(* rule on the shipped board geometry, and every small configuration       *)
(* within the bounds below.  Items are 0 .. items-1 and boards are         *)
(* 0 .. boards-1, as in the source.                                        *)
(*                                                                         *)
(* The source iterates over Python sets (list(boards_items[b])).  The      *)
(* language leaves that order unspecified, so the repair search takes any  *)
(* order of the items of a set; the order of the boards (range) is fixed.  *)
(***************************************************************************)
EXTENDS Integers, Sequences, FiniteSets, TLC

(* Program constants. *)
NUM_ITEMS == 36
NUM_BOARDS == 15
BOARD_SIZE == 16
FIRST_24_FREQUENCY == 7
LAST_12_FREQUENCY == 6
FREQUENCY_SPLIT == 24
max_iterations == 100

(* Bounds of the small configurations. *)
MaxItems == 4
MaxBoards == 3
MaxSize == 2
MaxFreq == 3

VARIABLES
    cfg,             \* the configuration: items, boards, size, split, first, last
    item_to_boards,  \* item -> sequence of the boards it was put on
    boards_items,    \* board -> set of items
    board_capacity,  \* board -> free slots
    placed,          \* number of items of items_by_freq already processed
    iteration,       \* repair passes completed
    pc,              \* "allocate", "repair", "verify", "done"
    result           \* "none", "ok", or the error that ended the call

vars == <<cfg, item_to_boards, boards_items, board_capacity, placed, iteration, pc, result>>

Items == 0 .. (cfg.items - 1)
Boards == 0 .. (cfg.boards - 1)

RealCfg ==
    [items |-> NUM_ITEMS, boards |-> NUM_BOARDS, size |-> BOARD_SIZE,
     split |-> FREQUENCY_SPLIT, first |-> FIRST_24_FREQUENCY, last |-> LAST_12_FREQUENCY]

(* Scenario 2 of the specification: every frequency set to 1. *)
AllOnesCfg ==
    [items |-> NUM_ITEMS, boards |-> NUM_BOARDS, size |-> BOARD_SIZE,
     split |-> FREQUENCY_SPLIT, first |-> 1, last |-> 1]

SmallCfgs ==
    { [items |-> n, boards |-> b, size |-> s, split |-> k, first |-> f1, last |-> f2] :
        n \in 1 .. MaxItems, b \in 1 .. MaxBoards, s \in 1 .. MaxSize,
        k \in 0 .. MaxItems, f1 \in 1 .. MaxFreq, f2 \in 1 .. MaxFreq }

Configs == {RealCfg, AllOnesCfg} \cup {c \in SmallCfgs : c.split <= c.items}

get_item_frequency(item_index) ==
    IF item_index < cfg.split THEN cfg.first ELSE cfg.last

RECURSIVE SumOver(_, _)
SumOver(f, S) ==
    IF S = {} THEN 0
    ELSE LET e == CHOOSE x \in S : TRUE IN f[e] + SumOver(f, S \ {e})

(* sorted(range(NUM_ITEMS), key=get_item_frequency): a stable sort, so ties *)
(* keep the order of the indices.                                           *)
ItemRank(i) ==
    Cardinality({j \in Items :
        \/ get_item_frequency(j) < get_item_frequency(i)
        \/ get_item_frequency(j) = get_item_frequency(i) /\ j < i})

items_by_freq == [k \in 1 .. cfg.items |-> CHOOSE i \in Items : ItemRank(i) = k - 1]

Max(S) == CHOOSE m \in S : \A x \in S : x <= m

(* Mutant of overlap_score: the candidate board is not skipped. *)
overlap_score_with_self(item, board, bi) ==
    LET current_items == bi[board]
        overlap_counts ==
            { Cardinality(current_items \cap bi[other_board])
                + (IF item \in bi[other_board] THEN 1 ELSE 0) :
              other_board \in Boards }
    IN IF overlap_counts # {} THEN Max(overlap_counts) ELSE 0

overlap_score(item, board, bi) ==
    LET current_items == bi[board]
        overlap_counts ==
            { Cardinality(current_items \cap bi[other_board])
                + (IF item \in bi[other_board] THEN 1 ELSE 0) :
              other_board \in Boards \ {board} }
    IN IF overlap_counts # {} THEN Max(overlap_counts) ELSE 0

(* Mutant of available_boards: the capacity test is missing. *)
available_boards_any_capacity(item) ==
    {b \in Boards : item \notin boards_items[b]}

(* Mutant of available_boards: the capacity test lets a full board through. *)
available_boards_off_by_one(item) ==
    {b \in Boards : board_capacity[b] >= 0 /\ item \notin boards_items[b]}

available_boards(item) ==
    {b \in Boards : board_capacity[b] > 0 /\ item \notin boards_items[b]}

(* The list of (b, board_capacity[b], _overlap_score(item, b, boards_items)) *)
(* tuples of the eligible boards, as a set.                                 *)
scored_boards(item) ==
    { <<b, board_capacity[b], overlap_score(item, b, boards_items)>> :
        b \in available_boards(item) }

(* Mutant of SortKeyBefore: the capacity is compared ascending. *)
SortKeyBeforeCapacityAscending(x, y) ==
    \/ x[3] < y[3]
    \/ x[3] = y[3] /\ x[2] < y[2]
    \/ x[3] = y[3] /\ x[2] = y[2] /\ x[1] < y[1]

(* available_boards.sort(key=lambda x: (x[2], -x[1])) on a list built in   *)
(* ascending board order: overlap ascending, capacity descending, then the *)
(* board index (the sort is stable).                                       *)
SortKeyBefore(x, y) ==
    \/ x[3] < y[3]
    \/ x[3] = y[3] /\ x[2] > y[2]
    \/ x[3] = y[3] /\ x[2] = y[2] /\ x[1] < y[1]

SortTuples(S) ==
    [k \in 1 .. Cardinality(S) |->
        CHOOSE t \in S : Cardinality({a \in S : SortKeyBefore(a, t)}) = k - 1]

(* Mutant of selected: the slice is one board short. *)
selected_short(item) ==
    CHOOSE sel \in
        { [k \in 1 .. get_item_frequency(item) - 1 |-> SortTuples(S)[k][1]] :
            S \in {scored_boards(item)} } : TRUE

(* available_boards[:freq], as the sequence of the boards. *)
selected(item) ==
    CHOOSE sel \in
        { [k \in 1 .. get_item_frequency(item) |-> SortTuples(S)[k][1]] :
            S \in {scored_boards(item)} } : TRUE

Range(s) == {s[k] : k \in 1 .. Len(s)}

Init ==
    /\ cfg \in Configs
    /\ item_to_boards = [i \in Items |-> <<>>]
    /\ boards_items = [b \in Boards |-> {}]
    /\ board_capacity = [b \in Boards |-> cfg.size]
    /\ placed = 0
    /\ iteration = 0
    /\ pc = "allocate"
    /\ result = "none"

(* A direct call of _repair_duplicates on a pre-built Assignment: every   *)
(* board holds size items, every item is on get_item_frequency boards     *)
(* (identical boards allowed), and item_to_boards lists each item's       *)
(* boards once, in ascending order.                                       *)
AscendingSeq(S) ==
    [k \in 1 .. Cardinality(S) |->
        CHOOSE b \in S : Cardinality({a \in S : a < b}) = k - 1]

InitRepair ==
    /\ cfg \in {c \in SmallCfgs :
                  /\ c.split <= c.items
                  /\ c.split * c.first + (c.items - c.split) * c.last = c.boards * c.size}
    /\ boards_items \in
          {bi \in [Boards -> {T \in SUBSET Items : Cardinality(T) = cfg.size}] :
              \A i \in Items :
                 Cardinality({b \in Boards : i \in bi[b]}) = get_item_frequency(i)}
    /\ item_to_boards =
          [i \in Items |-> AscendingSeq({b \in Boards : i \in boards_items[b]})]
    /\ board_capacity = [b \in Boards |-> 0]
    /\ placed = cfg.items
    /\ iteration = 0
    /\ pc = "repair"
    /\ result = "none"

(* One iteration of the loop over items_by_freq that places its item. *)
PlaceItem ==
    /\ pc = "allocate"
    /\ placed < cfg.items
    /\ \E item \in {items_by_freq[placed + 1]} :
       /\ Cardinality(available_boards(item)) >= get_item_frequency(item)
       /\ \E sel \in {selected(item)} :
          /\ boards_items' =
                [b \in Boards |-> IF b \in Range(sel) THEN boards_items[b] \cup {item}
                                  ELSE boards_items[b]]
          /\ board_capacity' =
                [b \in Boards |-> IF b \in Range(sel) THEN board_capacity[b] - 1
                                  ELSE board_capacity[b]]
          /\ item_to_boards' = [item_to_boards EXCEPT ![item] = @ \o sel]
    /\ placed' = placed + 1
    /\ UNCHANGED <<cfg, iteration, pc, result>>

(* The RuntimeError "Cannot place item": InsufficientCapacity. *)
CannotPlace ==
    /\ pc = "allocate"
    /\ placed < cfg.items
    /\ \E item \in {items_by_freq[placed + 1]} :
          Cardinality(available_boards(item)) < get_item_frequency(item)
    /\ pc' = "done"
    /\ result' = "InsufficientCapacity"
    /\ UNCHANGED <<cfg, item_to_boards, boards_items, board_capacity, placed, iteration>>

(* The loop is over: _repair_duplicates(boards_items, item_to_boards). *)
CallRepair ==
    /\ pc = "allocate"
    /\ placed = cfg.items
    /\ pc' = "repair"
    /\ iteration' = 0
    /\ UNCHANGED <<cfg, item_to_boards, boards_items, board_capacity, placed, result>>

(* The scan of a repair pass: duplicates holds (seen[key], b) for every    *)
(* board b whose item set was already seen on a lower board.               *)
duplicates(bi) ==
    { <<CHOOSE a \in Boards : bi[a] = bi[b] /\ \A c \in Boards : bi[c] = bi[b] => a <= c, b>> :
        b \in {d \in Boards : \E a \in Boards : a < d /\ bi[a] = bi[d]} }

(* duplicates[0]: the list is built in ascending order of b. *)
first_duplicate(bi) ==
    CHOOSE p \in duplicates(bi) : \A q \in duplicates(bi) : p[2] <= q[2]

(* Mutant of CanSwap: only the boards after b2 are searched. *)
CanSwapLater(bi, b1, b2, x, b3, y) ==
    /\ b3 > b2
    /\ x \in bi[b2]
    /\ y \in bi[b3]
    /\ x \notin bi[b3] /\ y \notin bi[b2]
    /\ ((bi[b2] \ {x}) \cup {y}) # bi[b1]

(* The tests of the innermost loop body for item_in_b2 = x on b2 and      *)
(* item_in_b3 = y on b3.                                                  *)
CanSwap(bi, b1, b2, x, b3, y) ==
    /\ b3 # b1 /\ b3 # b2
    /\ x \in bi[b2]
    /\ y \in bi[b3]
    /\ x \notin bi[b3] /\ y \notin bi[b2]
    /\ ((bi[b2] \ {x}) \cup {y}) # bi[b1]

(* The swaps the search can stop at: items of b2 in some order, boards b3 *)
(* in ascending order, items of b3 in some order, first combination that  *)
(* passes.  For the item x it stops at, b3 is the lowest board with a     *)
(* passing y.                                                             *)
swap_search(bi, b1, b2) ==
    { t \in { <<x, b3, y>> : x \in bi[b2], b3 \in Boards, y \in Items } :
        /\ CanSwap(bi, b1, b2, t[1], t[2], t[3])
        /\ \A b \in Boards : \A z \in bi[b] :
              CanSwap(bi, b1, b2, t[1], b, z) => t[2] <= b }

(* list.remove(v): drops the first occurrence of v. *)
RECURSIVE Remove(_, _)
Remove(s, v) ==
    IF s = <<>> THEN <<>>
    ELSE IF Head(s) = v THEN Tail(s)
    ELSE <<Head(s)>> \o Remove(Tail(s), v)

(* A pass whose scan finds no duplicate: return. *)
RepairNoDuplicates ==
    /\ pc = "repair"
    /\ iteration < max_iterations
    /\ duplicates(boards_items) = {}
    /\ pc' = "verify"
    /\ UNCHANGED <<cfg, item_to_boards, boards_items, board_capacity, placed, iteration, result>>

(* Mutant of swap_boards_items: item_in_b3 is not taken off b3. *)
swap_boards_items_keep(bi, b2, item_in_b2, b3, item_in_b3) ==
    [bi EXCEPT ![b2] = (@ \ {item_in_b2}) \cup {item_in_b3},
               ![b3] = @ \cup {item_in_b2}]

(* Mutant of swap_boards_items: item_in_b2 is not added to b3. *)
swap_boards_items_no_add(bi, b2, item_in_b2, b3, item_in_b3) ==
    [bi EXCEPT ![b2] = (@ \ {item_in_b2}) \cup {item_in_b3},
               ![b3] = @ \ {item_in_b3}]

(* Mutant of swap_item_to_boards: item_in_b3's list is left as it was. *)
swap_item_to_boards_one(itb, b2, item_in_b2, b3, item_in_b3) ==
    [itb EXCEPT ![item_in_b2] = Append(Remove(@, b2), b3)]

(* The swap on the boards: item_in_b2 leaves b2 for b3, item_in_b3 leaves *)
(* b3 for b2.                                                             *)
swap_boards_items(bi, b2, item_in_b2, b3, item_in_b3) ==
    [bi EXCEPT ![b2] = (@ \ {item_in_b2}) \cup {item_in_b3},
               ![b3] = (@ \ {item_in_b3}) \cup {item_in_b2}]

(* The swap on the items' lists: remove the old board, append the new one. *)
swap_item_to_boards(itb, b2, item_in_b2, b3, item_in_b3) ==
    [itb EXCEPT ![item_in_b2] = Append(Remove(@, b2), b3),
                ![item_in_b3] = Append(Remove(@, b3), b2)]

(* A pass that finds a duplicate pair and a swap for it.  list.remove     *)
(* raises ValueError when the board is not in the item's list: the boards *)
(* are then already swapped, and the lists are changed up to the failing  *)
(* remove.                                                                *)
RepairSwap ==
    /\ pc = "repair"
    /\ iteration < max_iterations
    /\ duplicates(boards_items) # {}
    /\ \E d \in {first_duplicate(boards_items)} :
       \E t \in swap_search(boards_items, d[1], d[2]) :
          LET b2 == d[2]
              item_in_b2 == t[1]
              b3 == t[2]
              item_in_b3 == t[3]
              has2 == b2 \in Range(item_to_boards[item_in_b2])
              has3 == b3 \in Range(item_to_boards[item_in_b3])
          IN /\ boards_items' = swap_boards_items(boards_items, b2, item_in_b2, b3, item_in_b3)
             /\ item_to_boards' =
                   IF ~has2 THEN item_to_boards
                   ELSE IF ~has3
                   THEN [item_to_boards EXCEPT
                           ![item_in_b2] = Append(Remove(@, b2), b3)]
                   ELSE swap_item_to_boards(item_to_boards, b2, item_in_b2, b3, item_in_b3)
             /\ IF has2 /\ has3
                THEN /\ iteration' = iteration + 1
                     /\ UNCHANGED <<pc, result>>
                ELSE /\ pc' = "done"
                     /\ result' = "ValueError"
                     /\ UNCHANGED iteration
    /\ UNCHANGED <<cfg, board_capacity, placed>>

(* A pass that finds a duplicate pair and no swap: the RuntimeError       *)
(* "Could not repair duplicate boards" (RepairExhausted).                 *)
RepairExhausted ==
    /\ pc = "repair"
    /\ iteration < max_iterations
    /\ duplicates(boards_items) # {}
    /\ \E d \in {first_duplicate(boards_items)} :
          swap_search(boards_items, d[1], d[2]) = {}
    /\ pc' = "done"
    /\ result' = "RepairExhausted"
    /\ UNCHANGED <<cfg, item_to_boards, boards_items, board_capacity, placed, iteration>>

(* range(max_iterations) is used up: the function ends, returning None. *)
RepairLoopEnd ==
    /\ pc = "repair"
    /\ iteration = max_iterations
    /\ pc' = "verify"
    /\ UNCHANGED <<cfg, item_to_boards, boards_items, board_capacity, placed, iteration, result>>

(* Mutant of verify_result: the board-size assertion is missing. *)
verify_result_no_size(bi, itb) ==
    IF \E item \in Items : Len(itb[item]) # get_item_frequency(item)
    THEN "AssertionError: item frequency"
    ELSE IF Cardinality({bi[b] : b \in Boards}) # cfg.boards
    THEN "AssertionError: duplicate boards"
    ELSE "ok"

(* Mutant of verify_result: the duplicate-board assertion is missing. *)
verify_result_no_duplicates(bi, itb) ==
    IF \E b \in Boards : Cardinality(bi[b]) # cfg.size
    THEN "AssertionError: board size"
    ELSE IF \E item \in Items : Len(itb[item]) # get_item_frequency(item)
    THEN "AssertionError: item frequency"
    ELSE "ok"

(* The assertions of _generate_balanced after the repair, in their order. *)
verify_result(bi, itb) ==
    IF \E b \in Boards : Cardinality(bi[b]) # cfg.size
    THEN "AssertionError: board size"
    ELSE IF \E item \in Items : Len(itb[item]) # get_item_frequency(item)
    THEN "AssertionError: item frequency"
    ELSE IF Cardinality({bi[b] : b \in Boards}) # cfg.boards
    THEN "AssertionError: duplicate boards"
    ELSE "ok"

Verify ==
    /\ pc = "verify"
    /\ pc' = "done"
    /\ result' = verify_result(boards_items, item_to_boards)
    /\ UNCHANGED <<cfg, item_to_boards, boards_items, board_capacity, placed, iteration>>

_repair_duplicates ==
    RepairNoDuplicates \/ RepairSwap \/ RepairExhausted \/ RepairLoopEnd

Next == PlaceItem \/ CannotPlace \/ CallRepair \/ _repair_duplicates \/ Verify

Spec == Init /\ [][Next]_vars

SpecRepair == InitRepair /\ [][_repair_duplicates]_vars
(***************************************************************************)
(* Properties.                                                             *)
(***************************************************************************)
CardsHolding(i) == {b \in Boards : i \in boards_items[b]}

Succeeded == pc = "done" /\ result = "ok"

(* C1: with 36 items, 15 cards of 16 slots and frequency 7 for items 0-23 *)
(* and 6 for items 24-35, the allocator-then-repair pipeline never ends   *)
(* in an error, and when it is done every item i is on exactly            *)
(* get_item_frequency(i) cards.                                           *)
C1_RealRunMeetsFrequencies ==
    cfg = RealCfg =>
        /\ result \in {"none", "ok"}
        /\ pc = "done" =>
              \A i \in Items : Cardinality(CardsHolding(i)) = get_item_frequency(i)

C1_Witness ==
    /\ cfg = RealCfg
    /\ Succeeded
    /\ Cardinality(CardsHolding(0)) = FIRST_24_FREQUENCY
    /\ Cardinality(CardsHolding(NUM_ITEMS - 1)) = LAST_12_FREQUENCY

(* C2: when the pipeline succeeds every card holds exactly size distinct  *)
(* items, and the occupied slots add up to boards x size, which is the    *)
(* sum of the item frequencies (15 x 16 = 240 in the shipped              *)
(* configuration).                                                        *)
C2_CardSizeAndSlotConservation ==
    Succeeded =>
        /\ \A b \in Boards : Cardinality(boards_items[b]) = cfg.size
        /\ SumOver([b \in Boards |-> Cardinality(boards_items[b])], Boards)
              = cfg.boards * cfg.size
        /\ SumOver([i \in Items |-> get_item_frequency(i)], Items)
              = cfg.boards * cfg.size

C2_Witness ==
    /\ cfg = RealCfg
    /\ Succeeded
    /\ SumOver([b \in Boards |-> Cardinality(boards_items[b])], Boards) = 240

(* C3: when the pipeline succeeds no two distinct cards hold the same     *)
(* item set, and no pair of cards has an overlap of size items.           *)
C3_NoIdenticalCards ==
    Succeeded =>
        \A a \in Boards : \A b \in Boards :
            a # b =>
                /\ boards_items[a] # boards_items[b]
                /\ Cardinality(boards_items[a] \cap boards_items[b]) # cfg.size

C3_Witness ==
    /\ cfg = RealCfg
    /\ Succeeded
    /\ iteration >= 1
    /\ \A a \in Boards : \A b \in Boards : a # b => boards_items[a] # boards_items[b]
HasDuplicates == \E a \in Boards : \E b \in Boards : a # b /\ boards_items[a] = boards_items[b]

(* C4: whenever _repair_duplicates, called on an Assignment that meets    *)
(* the frequency and card-size invariants, returns normally (pc =         *)
(* "verify": control is back in the caller), no two cards hold the same   *)
(* item set.                                                              *)
C4_ReturnMeansNoDuplicates ==
    pc = "verify" => ~HasDuplicates

(* C5: if duplicate cards remain once the max_iterations passes are used  *)
(* up, the repair engine ends with a RepairIterationLimit error instead   *)
(* of returning.                                                          *)
C5_IterationLimitIsAnError ==
    (pc # "repair" /\ iteration = max_iterations /\ HasDuplicates)
        => result = "RepairIterationLimit"

(* C6: a repair pass that applies a swap leaves the size of every card    *)
(* and the number of cards holding every item (in both views) as they     *)
(* were before the pass.                                                  *)
C6_SwapKeepsCounts ==
    [][ (pc = "repair" /\ boards_items' # boards_items) =>
          /\ \A b \in Boards :
                Cardinality(boards_items'[b]) = Cardinality(boards_items[b])
          /\ \A i \in Items :
                /\ Cardinality({b \in Boards : i \in boards_items'[b]})
                      = Cardinality({b \in Boards : i \in boards_items[b]})
                /\ Len(item_to_boards'[i]) = Len(item_to_boards[i]) ]_vars

C6_Witness ==
    /\ pc = "repair"
    /\ iteration >= 2
    /\ \A i \in Items : Cardinality(CardsHolding(i)) = get_item_frequency(i)
    /\ \A b \in Boards : Cardinality(boards_items[b]) = cfg.size

SumFrequencies == SumOver([i \in Items |-> get_item_frequency(i)], Items)

(* C7 as stated: whenever the frequencies do not add up to boards x size  *)
(* the pipeline ends in InsufficientCapacity.                             *)
C7_MismatchIsInsufficientCapacity ==
    (pc = "done" /\ SumFrequencies # cfg.boards * cfg.size)
        => result = "InsufficientCapacity"

(* C7 amended: when the frequencies add up to more than boards x size the *)
(* pipeline ends in InsufficientCapacity; when they add up to less it     *)
(* never succeeds, but the error may be another one; with 15 cards of 16  *)
(* and 36 items of frequency 1 every item is placed and the pipeline ends *)
(* in the card-size assertion.                                            *)
C7_MismatchNeverSucceeds ==
    pc = "done" =>
        /\ SumFrequencies > cfg.boards * cfg.size => result = "InsufficientCapacity"
        /\ SumFrequencies # cfg.boards * cfg.size => result # "ok"
        /\ cfg = AllOnesCfg => result = "AssertionError: board size"

C7_Witness ==
    /\ cfg = AllOnesCfg
    /\ pc = "done"
    /\ placed = NUM_ITEMS
    /\ result = "AssertionError: board size"

(* C8: in a pass whose scan finds the duplicate pair (first_card,         *)
(* second_card), the engine fails with RepairExhausted exactly when no    *)
(* item x of second_card, card third_card other than the pair and item y  *)
(* of third_card exist with x not on third_card, y not on second_card and *)
(* second_card with x replaced by y different from first_card; when such  *)
(* a triple exists the pass changes the boards instead.                   *)
C8_ExhaustedIffNoSwap ==
    [][ (pc = "repair" /\ iteration < max_iterations /\ HasDuplicates) =>
          LET first_card == first_duplicate(boards_items)[1]
              second_card == first_duplicate(boards_items)[2]
              swap_exists ==
                  \E x \in boards_items[second_card] :
                  \E third_card \in Boards \ {first_card, second_card} :
                  \E y \in boards_items[third_card] :
                      /\ x \notin boards_items[third_card]
                      /\ y \notin boards_items[second_card]
                      /\ ((boards_items[second_card] \ {x}) \cup {y})
                            # boards_items[first_card]
          IN /\ (result' = "RepairExhausted") <=> ~swap_exists
             /\ swap_exists =>
                   /\ boards_items' # boards_items
                   /\ result' = "none" /\ pc' = "repair" ]_vars

C8_Witness ==
    /\ result = "RepairExhausted"
    /\ HasDuplicates
    /\ cfg.boards >= 3

(* C10: after every allocator step and every repair pass, item i is in    *)
(* boards_items[c] exactly when c is in item_to_boards[i], and no list    *)
(* item_to_boards[i] names a card twice.                                  *)
C10_ViewsAgree ==
    /\ \A i \in Items : \A c \in Boards :
          (i \in boards_items[c]) <=> (c \in Range(item_to_boards[i]))
    /\ \A i \in Items : Cardinality(Range(item_to_boards[i])) = Len(item_to_boards[i])

C10_Witness ==
    /\ cfg = RealCfg
    /\ pc = "repair"
    /\ iteration >= 1
    /\ \E i \in Items : item_to_boards[i] # AscendingSeq(CardsHolding(i))
(* C11: throughout the allocator the capacity counter of every card is    *)
(* size minus the number of items on the card and is never negative, no   *)
(* card holds more than size items, and a placement step never adds an    *)
(* item to a card whose capacity is zero.                                 *)
C11_CapacityTracksOccupancy ==
    /\ [](pc = "allocate" =>
            \A c \in Boards :
                /\ board_capacity[c] = cfg.size - Cardinality(boards_items[c])
                /\ board_capacity[c] >= 0
                /\ Cardinality(boards_items[c]) <= cfg.size)
    /\ [][ pc = "allocate" =>
            \A c \in Boards :
                board_capacity[c] = 0 => boards_items'[c] = boards_items[c] ]_vars

(* A full card while an item is still to be placed, and can be placed. *)
C11_Witness ==
    /\ pc = "allocate"
    /\ placed >= 1
    /\ placed < cfg.items
    /\ \E c \in Boards : board_capacity[c] = 0 /\ Cardinality(boards_items[c]) = cfg.size
    /\ Cardinality(available_boards(items_by_freq[placed + 1]))
          >= get_item_frequency(items_by_freq[placed + 1])
(* C12: a placement step puts its item on exactly get_item_frequency      *)
(* eligible cards (capacity > 0, item not yet on the card), and every     *)
(* card it picks comes before every eligible card it leaves out in the    *)
(* order: overlap score ascending, then remaining capacity descending,    *)
(* then card index ascending.                                             *)
C12_SelectsFirstInOrder ==
    [][ (pc = "allocate" /\ placed' = placed + 1) =>
          \A item \in {items_by_freq[placed + 1]} :
          \A eligible \in {{c \in Boards :
                              board_capacity[c] > 0 /\ item \notin boards_items[c]}} :
          \A chosen \in {{c \in Boards :
                              item \in boards_items'[c] /\ item \notin boards_items[c]}} :
          \A score \in {[c \in eligible |-> overlap_score(item, c, boards_items)]} :
              /\ chosen \subseteq eligible
              /\ Cardinality(chosen) = get_item_frequency(item)
              /\ \A c \in Boards \ chosen : boards_items'[c] = boards_items[c]
              /\ \A s \in chosen : \A u \in eligible \ chosen :
                    \/ score[s] < score[u]
                    \/ score[s] = score[u] /\ board_capacity[s] > board_capacity[u]
                    \/ /\ score[s] = score[u]
                       /\ board_capacity[s] = board_capacity[u]
                       /\ s < u ]_vars

(* The item placed last is on its frequency of cards, and a card that was *)
(* eligible for it (free slot, item not on it) was left out.              *)
C12_Witness ==
    /\ pc = "allocate"
    /\ placed >= 2
    /\ cfg.boards >= 3
    /\ Cardinality(CardsHolding(items_by_freq[placed]))
          = get_item_frequency(items_by_freq[placed])
    /\ \E c \in Boards :
          /\ board_capacity[c] > 0
          /\ items_by_freq[placed] \notin boards_items[c]
(* The overlap a placement of item on card would have with card o: the    *)
(* items the two cards share, plus one if item is already on o.           *)
SimulatedOverlap(item, card, o) ==
    Cardinality({i \in boards_items[card] : i \in boards_items[o]})
        + (IF item \in boards_items[o] THEN 1 ELSE 0)

(* C13: for every item and candidate card, on every Assignment the        *)
(* pipeline goes through, _overlap_score(item, card) is the maximum over  *)
(* the cards o other than the candidate of the simulated overlap with o   *)
(* (and 0 when there is no other card).                                   *)
C13_ScoreIsMaxSimulatedOverlap ==
    \A item \in Items : \A card \in Boards :
    \A sc \in {overlap_score(item, card, boards_items)} :
        IF Boards \ {card} = {}
        THEN sc = 0
        ELSE /\ \E o \in Boards \ {card} : sc = SimulatedOverlap(item, card, o)
             /\ \A o \in Boards \ {card} : SimulatedOverlap(item, card, o) <= sc

(* A call whose score is set by the increment: item is on the card o that *)
(* gives the maximum, and the plain shared counts are all smaller.        *)
C13_Witness ==
    \E item \in Items : \E card \in Boards : \E o \in Boards \ {card} :
        /\ item \in boards_items[o]
        /\ item \notin boards_items[card]
        /\ overlap_score(item, card, boards_items) = SimulatedOverlap(item, card, o)
        /\ overlap_score(item, card, boards_items) >= 2
        /\ \A q \in Boards \ {card} :
              Cardinality(boards_items[card] \cap boards_items[q])
                  < overlap_score(item, card, boards_items)
(* C14: a repair pass that applies a swap changes the item sets of        *)
(* exactly two cards, second_card (the lowest card repeating the set of a *)
(* lower card) and a third card that is neither it nor first_card (the    *)
(* lowest card with that set), by exchanging one item x of second_card    *)
(* for one item y of the third card, and changes the card lists of x and  *)
(* y only; a pass that ends in RepairExhausted or returns leaves both     *)
(* views unchanged.                                                       *)
C14_PassFrame ==
    [][ pc = "repair" =>
          /\ (boards_items' # boards_items \/ item_to_boards' # item_to_boards) =>
                \E second_card \in Boards : \E first_card \in Boards :
                \E third_card \in Boards \ {first_card, second_card} :
                \E x \in boards_items[second_card] :
                \E y \in boards_items[third_card] :
                    /\ first_card < second_card
                    /\ boards_items[first_card] = boards_items[second_card]
                    /\ \A c \in Boards :
                          boards_items[c] = boards_items[second_card] => first_card <= c
                    /\ \A b \in Boards : \A a \in Boards :
                          (a < b /\ boards_items[a] = boards_items[b]) => second_card <= b
                    /\ x # y
                    /\ boards_items'[second_card]
                          = (boards_items[second_card] \ {x}) \cup {y}
                    /\ boards_items'[third_card]
                          = (boards_items[third_card] \ {y}) \cup {x}
                    /\ boards_items'[second_card] # boards_items[second_card]
                    /\ boards_items'[third_card] # boards_items[third_card]
                    /\ \A c \in Boards \ {second_card, third_card} :
                          boards_items'[c] = boards_items[c]
                    /\ \A i \in Items \ {x, y} :
                          item_to_boards'[i] = item_to_boards[i]
                    /\ item_to_boards'[x] # item_to_boards[x]
                    /\ item_to_boards'[y] # item_to_boards[y]
          /\ (result' = "RepairExhausted" \/ pc' = "verify") =>
                /\ boards_items' = boards_items
                /\ item_to_boards' = item_to_boards ]_vars

(* One swap was applied to an Assignment whose lists were ascending: one  *)
(* or two lists are now out of order, and the boards still add up.        *)
C14_Witness ==
    /\ pc = "repair"
    /\ iteration = 1
    /\ cfg.boards >= 3
    /\ Cardinality({i \in Items :
                      item_to_boards[i] # AscendingSeq(CardsHolding(i))}) \in 1 .. 2
====
